---- MODULE Spec2Model ----
(***************************************************************************)
(* Model of mars2g4bl.py: the conversion of a MARS particle matrix into a  *)
(* G4Beamline beam matrix, entered through mars2g4bl(marsfile, inputdict). *)
(*                                                                         *)
(* Numbers.  Every cell of a numpy float matrix is modelled in fixed point *)
(* as an integer count of thousandths: the cell value v is held as         *)
(* 1000 * v.  The inputs are chosen so that every product and quotient the *)
(* code forms is exact in that representation.                             *)
(*                                                                         *)
(* Matrices are sequences of rows and rows are sequences of cells; python  *)
(* column j is position j + 1 here.                                        *)
(*   MARS row : <<i, x, y, z, px, py, pz, w, t>>                           *)
(*   G4BL row : <<x, y, z, px, py, pz, t, pdg, event, track, parent, w>>   *)
(***************************************************************************)
EXTENDS Integers, Sequences, FiniteSets

VARIABLES
    pc,             \* position of the control flow in mars2g4bl / main
    inputdict,      \* the configuration dictionary passed by the caller
    marsfile,       \* the matrix loadtxt_fast returned (the file's content)
    marsbeam_mat,   \* main's marsbeam_mat
    retained_mat,   \* marsbeam_mat as bound after the momentum cut
    time_included,  \* main's time_included: "unbound", "True" or "False"
    g4blbeam_mat,   \* main's g4blbeam_mat
    rand,           \* the draws of np.random.random, one per retained row
    presample_mat,  \* g4blbeam_mat as it stood when the indices were shuffled
    index_keep,     \* main's index_keep (1-based row indices)
    written,        \* the matrices handed to writeBeam, in call order
    error           \* "none", or the exception / exit that ended the run

vars == <<pc, inputdict, marsfile, marsbeam_mat, retained_mat, time_included,
          g4blbeam_mat, rand, presample_mat, index_keep, written, error>>

-----------------------------------------------------------------------------
(* Bounds of the model *)

MaxRows == 2

-----------------------------------------------------------------------------
(* Fixed-point helpers *)

\* The float holding the integer n.
Fp(n) == n * 1000

\* v * 10, v * 1000, v * 1e9 and v / 1e3 on a cell.
Times10(v) == v * 10
Times1000(v) == v * 1000
Times1e9(v) == v * 1000000000
Div1e3(v) == v \div 1000

\* a * b for two cells.
FpMul(a, b) == (a * b) \div 1000

\* python int(x): truncation toward zero.
PyInt(v) == IF v >= 0 THEN v \div 1000 ELSE -((-v) \div 1000)

\* np.floor(x), as a cell.
NpFloor(v) == (v \div 1000) * 1000

\* sqrt(s) <= b and sqrt(s) >= a, for s a sum of squares of cells.
SqrtLeq(s, b) == b >= 0 /\ s <= b * b
SqrtGeq(s, a) == a <= 0 \/ s >= a * a

Min(a, b) == IF a <= b THEN a ELSE b
Max(a, b) == IF a >= b THEN a ELSE b

\* seq[0:k] of python, k an integer that may be negative or exceed the length.
PySlice(seq, k) ==
    LET n == Len(seq)
        stop == IF k < 0 THEN Max(0, n + k) ELSE Min(k, n)
    IN  SubSeq(seq, 1, stop)

RECURSIVE Perms(_)
\* All orders np.random.shuffle can leave the elements of S in.
Perms(S) ==
    IF S = {} THEN {<<>>}
    ELSE UNION {{<<x>> \o p : p \in Perms(S \ {x})} : x \in S}

-----------------------------------------------------------------------------
(* The particle table *)

\* Variant: the table also holds an entry for code 12.
MARS2G4BL_PDG_Extra ==
    [c \in 1..12 |->
        CASE c = 1 -> 2212  [] c = 2 -> -2112 [] c = 3 -> 211
          [] c = 4 -> -211  [] c = 5 -> 321   [] c = 6 -> -321
          [] c = 7 -> -13   [] c = 8 -> 13    [] c = 9 -> 22
          [] c = 10 -> 11   [] c = 11 -> -11  [] c = 12 -> 0]

MARS2G4BL_PDG ==
    [c \in 1..11 |->
        CASE c = 1 -> 2212  [] c = 2 -> -2112 [] c = 3 -> 211
          [] c = 4 -> -211  [] c = 5 -> 321   [] c = 6 -> -321
          [] c = 7 -> -13   [] c = 8 -> 13    [] c = 9 -> 22
          [] c = 10 -> 11   [] c = 11 -> -11]

-----------------------------------------------------------------------------
(* Inputs *)

Keys == {"p_cut", "fraction", "mult", "duplicate"}

\* Complete dictionaries: no cut, a 100..300 MeV/c window, an inverted window;
\* multipliers 2 and -1; fractions 1, 0.5 and 0.
FullDicts ==
    [p_cut : {<<0, 0>>, <<Fp(100), Fp(300)>>, <<Fp(300), Fp(100)>>},
     mult : {2000, -1000},
     duplicate : BOOLEAN,
     fraction : {1000, 500, 0}]

\* Dictionaries with any subset of the keys present.
InputDicts == {[k \in K |-> d[k]] : d \in FullDicts, K \in SUBSET Keys}

\* Particle codes of the input rows: the table's domain and two codes outside it.
Codes == 0..12

\* The MARS row carrying particle code c. Momenta (GeV/c): 0.5, 0.2, 0.3, 0.05
\* and 0.1 in magnitude; weights 0.5 (codes 5 and 11), 0.15 (other odd codes)
\* and 0 (even codes); times 0, 1 and 2 ms.
MarsRow(c) ==
    LET p == CASE c % 5 = 0 -> <<300, 400, 0>>
               [] c % 5 = 1 -> <<0, 0, 200>>
               [] c % 5 = 2 -> <<0, -300, 0>>
               [] c % 5 = 3 -> <<0, 0, 50>>
               [] c % 5 = 4 -> <<100, 0, 0>>
        w == CASE c \in {5, 11} -> 500
               [] c \notin {5, 11} /\ c % 2 = 1 -> 150
               [] c % 2 = 0 -> 0
    IN  <<Fp(c), 100 * c, 2000, -3000, p[1], p[2], p[3], w, c % 3>>

Widths == {7, 8, 9}

RECURSIVE RowSeqs(_)
\* Sequences of 1..n rows, every row of full width.
RowSeqs(n) ==
    IF n = 0 THEN {}
    ELSE LET shorter == RowSeqs(n - 1)
         IN  {<<MarsRow(c)>> : c \in Codes}
               \cup shorter
               \cup {Append(s, MarsRow(c)) : s \in shorter, c \in Codes}

\* The matrices a file can hold: 1..MaxRows rows of one width.
Matrices ==
    {[i \in 1..Len(m) |-> SubSeq(m[i], 1, wd)] : m \in RowSeqs(MaxRows), wd \in Widths}

\* marsbeam_mat.shape[1]
NCols(m) == Len(m[1])

-----------------------------------------------------------------------------
Init ==
    /\ pc = "mars2g4bl"
    /\ inputdict \in InputDicts
    /\ marsfile = <<>>
    /\ marsbeam_mat = <<>>
    /\ retained_mat = <<>>
    /\ time_included = "unbound"
    /\ g4blbeam_mat = <<>>
    /\ rand = <<>>
    /\ presample_mat = <<>>
    /\ index_keep = <<>>
    /\ written = <<>>
    /\ error = "none"

\* An uncaught exception or sys.exit in an error path: the process ends.
Abort(why) ==
    /\ pc' = "aborted"
    /\ error' = why

-----------------------------------------------------------------------------
(* mars2g4bl: the key check *)

HasAllKeys(d) ==
    /\ "p_cut" \in DOMAIN d
    /\ "fraction" \in DOMAIN d
    /\ "mult" \in DOMAIN d
    /\ "duplicate" \in DOMAIN d

Mars2g4blCall ==
    /\ pc = "mars2g4bl"
    /\ HasAllKeys(inputdict)
    /\ pc' = "load"
    /\ UNCHANGED <<inputdict, marsfile, marsbeam_mat, retained_mat, time_included,
                   g4blbeam_mat, rand, presample_mat, index_keep, written, error>>

Mars2g4blMissingKeys ==
    /\ pc = "mars2g4bl"
    /\ ~HasAllKeys(inputdict)
    /\ Abort("ConfigError")
    /\ UNCHANGED <<inputdict, marsfile, marsbeam_mat, retained_mat, time_included,
                   g4blbeam_mat, rand, presample_mat, index_keep, written>>

-----------------------------------------------------------------------------
(* main: loading *)

LoadFile ==
    /\ pc = "load"
    /\ \E m \in Matrices :
          /\ marsfile' = m
          /\ marsbeam_mat' = m
    /\ pc' = "columns"
    /\ UNCHANGED <<inputdict, retained_mat, time_included, g4blbeam_mat, rand,
                   presample_mat, index_keep, written, error>>

LoadFileError ==
    /\ pc = "load"
    /\ Abort("LoadError")
    /\ UNCHANGED <<inputdict, marsfile, marsbeam_mat, retained_mat, time_included,
                   g4blbeam_mat, rand, presample_mat, index_keep, written>>

-----------------------------------------------------------------------------
(* main: the column count *)

\* shape[1] == 9: the time column is present.
ColumnCheckNine ==
    /\ pc = "columns"
    /\ NCols(marsbeam_mat) = 9
    /\ time_included' = "True"
    /\ pc' = "cut"
    /\ UNCHANGED <<inputdict, marsfile, marsbeam_mat, retained_mat, g4blbeam_mat,
                   rand, presample_mat, index_keep, written, error>>

\* shape[1] != 9: the elif reads the name MARSbeamMat, which nothing binds.
ColumnCheckNameError ==
    /\ pc = "columns"
    /\ NCols(marsbeam_mat) # 9
    /\ Abort("NameError")
    /\ UNCHANGED <<inputdict, marsfile, marsbeam_mat, retained_mat, time_included,
                   g4blbeam_mat, rand, presample_mat, index_keep, written>>

-----------------------------------------------------------------------------
(* main: the momentum cut *)

\* total_p ** 2 of a MARS row
TotalPSq(row) == row[5] * row[5] + row[6] * row[6] + row[7] * row[7]

\* Variant: the window taken with strict comparisons.
InCutStrict(row, p_cut) ==
    /\ ~SqrtGeq(TotalPSq(row), Div1e3(p_cut[2]))
    /\ ~SqrtLeq(TotalPSq(row), Div1e3(p_cut[1]))

\* np.all([total_p <= p_cut[1]/1e3, total_p >= p_cut[0]/1e3]) for one row
InCut(row, p_cut) ==
    /\ SqrtLeq(TotalPSq(row), Div1e3(p_cut[2]))
    /\ SqrtGeq(TotalPSq(row), Div1e3(p_cut[1]))

RECURSIVE SelectRows(_, _)
\* mat[mask, :]
SelectRows(mat, p_cut) ==
    IF mat = <<>> THEN <<>>
    ELSE IF InCut(Head(mat), p_cut)
         THEN <<Head(mat)>> \o SelectRows(Tail(mat), p_cut)
         ELSE SelectRows(Tail(mat), p_cut)

CutApplied(mat, p_cut) ==
    IF p_cut # <<0, 0>> THEN SelectRows(mat, p_cut) ELSE mat

MomentumCut ==
    /\ pc = "cut"
    /\ marsbeam_mat' = CutApplied(marsbeam_mat, inputdict["p_cut"])
    /\ retained_mat' = marsbeam_mat'
    /\ pc' = "convert"
    /\ UNCHANGED <<inputdict, marsfile, time_included, g4blbeam_mat, rand,
                   presample_mat, index_keep, written, error>>

-----------------------------------------------------------------------------
(* main: unit conversion into the 12-column layout *)

\* Variant: the momenta scaled by the length factor.
ConvertRowLengthFactor(row, timed) ==
    <<Times10(row[2]), Times10(row[3]), Times10(row[4]),
      Times10(row[5]), Times10(row[6]), Times10(row[7]),
      IF timed THEN Times1e9(row[9]) ELSE 0,
      0, 0, 0, 0, 0>>

ConvertRow(row, timed) ==
    <<Times10(row[2]), Times10(row[3]), Times10(row[4]),
      Times1000(row[5]), Times1000(row[6]), Times1000(row[7]),
      IF timed THEN Times1e9(row[9]) ELSE 0,
      0, 0, 0, 0, 0>>

UnitConversion ==
    /\ pc = "convert"
    /\ time_included # "unbound"
    /\ g4blbeam_mat' = [i \in 1..Len(marsbeam_mat) |->
                           ConvertRow(marsbeam_mat[i], time_included = "True")]
    /\ pc' = "pdg"
    /\ UNCHANGED <<inputdict, marsfile, marsbeam_mat, retained_mat, time_included,
                   rand, presample_mat, index_keep, written, error>>

-----------------------------------------------------------------------------
(* main: the particle identity *)

\* The rows whose code the table does not hold.
KeyErrorRows(mat) == {i \in 1..Len(mat) : PyInt(mat[i][1]) \notin DOMAIN MARS2G4BL_PDG}

\* parse_pdg on one cell
ParsePdg(x) == Fp(MARS2G4BL_PDG[PyInt(x)])

PdgMapped ==
    /\ pc = "pdg"
    /\ Len(marsbeam_mat) > 0
    /\ KeyErrorRows(marsbeam_mat) = {}
    /\ g4blbeam_mat' = [i \in 1..Len(g4blbeam_mat) |->
                           [g4blbeam_mat[i] EXCEPT ![8] = ParsePdg(marsbeam_mat[i][1])]]
    /\ pc' = "mult"
    /\ UNCHANGED <<inputdict, marsfile, marsbeam_mat, retained_mat, time_included,
                   rand, presample_mat, index_keep, written, error>>

\* Variant: the lookup failure is caught, what was converted so far is
\* written, and the run ends.
PdgKeyErrorPartialWrite ==
    /\ pc = "pdg"
    /\ Len(marsbeam_mat) > 0
    /\ KeyErrorRows(marsbeam_mat) # {}
    /\ written' = Append(written, g4blbeam_mat)
    /\ Abort("KeyError")
    /\ UNCHANGED <<inputdict, marsfile, marsbeam_mat, retained_mat, time_included,
                   g4blbeam_mat, rand, presample_mat, index_keep>>

\* A retained row carries a code outside the table: the lookup raises.
PdgKeyError ==
    /\ pc = "pdg"
    /\ Len(marsbeam_mat) > 0
    /\ KeyErrorRows(marsbeam_mat) # {}
    /\ Abort("KeyError")
    /\ UNCHANGED <<inputdict, marsfile, marsbeam_mat, retained_mat, time_included,
                   g4blbeam_mat, rand, presample_mat, index_keep, written>>

\* No row is retained: np.vectorize cannot call the lambda on a size 0 input.
PdgEmptyError ==
    /\ pc = "pdg"
    /\ Len(marsbeam_mat) = 0
    /\ Abort("EmptyError")
    /\ UNCHANGED <<inputdict, marsfile, marsbeam_mat, retained_mat, time_included,
                   g4blbeam_mat, rand, presample_mat, index_keep, written>>

-----------------------------------------------------------------------------
(* main: weight multiplication *)

Rescaled(mat, mult) == [i \in 1..Len(mat) |-> [mat[i] EXCEPT ![8] = FpMul(@, mult)]]

WeightMult ==
    /\ pc = "mult"
    /\ marsbeam_mat' = Rescaled(marsbeam_mat, inputdict["mult"])
    /\ pc' = "duplicate"
    /\ UNCHANGED <<inputdict, marsfile, retained_mat, time_included, g4blbeam_mat,
                   rand, presample_mat, index_keep, written, error>>

-----------------------------------------------------------------------------
(* main: duplication by weight *)

\* The values np.random.random may return, as cells: 0.299 and 0.3.
Draws == {299, 300}

\* The repeat count of a row of rescaled weight w under the draw u:
\* int(floor(w) + (u >= w - floor(w))).
DupCount(w, u) ==
    LET particle_weight_int == NpFloor(w)
        particle_weight_float == w - particle_weight_int
        add_weight_logic == IF u >= particle_weight_float THEN Fp(1) ELSE 0
    IN  PyInt(particle_weight_int + add_weight_logic)

RECURSIVE Repeat(_, _)
\* np.repeat(mat, counts, axis=0)
Repeat(mat, counts) ==
    IF mat = <<>> THEN <<>>
    ELSE [i \in 1..Head(counts) |-> Head(mat)] \o Repeat(Tail(mat), Tail(counts))

\* g4blbeam_mat[:, 11] = the given weights, row by row
WithWeights(mat, weights) ==
    [i \in 1..Len(mat) |-> [mat[i] EXCEPT ![12] = weights[i]]]

Duplication ==
    /\ pc = "duplicate"
    /\ inputdict["duplicate"]
    /\ \E u \in [1..Len(marsbeam_mat) -> Draws] :
          LET counts == [i \in 1..Len(marsbeam_mat) |-> DupCount(marsbeam_mat[i][8], u[i])]
              repeated == Repeat(g4blbeam_mat, counts)
          IN  /\ \A i \in 1..Len(counts) : counts[i] >= 0
              /\ rand' = u
              /\ marsbeam_mat' = [i \in 1..Len(marsbeam_mat) |->
                                     [marsbeam_mat[i] EXCEPT ![8] = Fp(counts[i])]]
              /\ g4blbeam_mat' = WithWeights(repeated, [i \in 1..Len(repeated) |-> Fp(1)])
    /\ pc' = "sample"
    /\ UNCHANGED <<inputdict, marsfile, retained_mat, time_included, presample_mat,
                   index_keep, written, error>>

\* A negative repeat count: np.repeat raises.
DuplicationValueError ==
    /\ pc = "duplicate"
    /\ inputdict["duplicate"]
    /\ \E u \in [1..Len(marsbeam_mat) -> Draws] :
          /\ \E i \in 1..Len(marsbeam_mat) : DupCount(marsbeam_mat[i][8], u[i]) < 0
          /\ rand' = u
    /\ Abort("ValueError")
    /\ UNCHANGED <<inputdict, marsfile, marsbeam_mat, retained_mat, time_included,
                   g4blbeam_mat, presample_mat, index_keep, written>>

NoDuplication ==
    /\ pc = "duplicate"
    /\ ~inputdict["duplicate"]
    /\ g4blbeam_mat' = WithWeights(g4blbeam_mat,
                                   [i \in 1..Len(marsbeam_mat) |-> marsbeam_mat[i][8]])
    /\ pc' = "sample"
    /\ UNCHANGED <<inputdict, marsfile, marsbeam_mat, retained_mat, time_included,
                   rand, presample_mat, index_keep, written, error>>

-----------------------------------------------------------------------------
(* main: the fraction of the beam *)

\* Variant: one index more than floor(fraction * rows) is kept.
IndexKeepOneMore(g4blbeam_index, fraction) ==
    PySlice(g4blbeam_index, PyInt(NpFloor(fraction * Len(g4blbeam_index))) + 1)

\* Variant: the last of the kept indices is lost.
IndexKeepOneLess(g4blbeam_index, fraction) ==
    PySlice(g4blbeam_index,
            Max(0, PyInt(NpFloor(fraction * Len(g4blbeam_index))) - 1))

\* g4blbeam_index[0 : floor(fraction * rows)] for the shuffled indices
\* (np.floor returns a float; the slice takes the integer it holds).
IndexKeep(g4blbeam_index, fraction) ==
    PySlice(g4blbeam_index, PyInt(NpFloor(fraction * Len(g4blbeam_index))))

Sampling ==
    /\ pc = "sample"
    /\ \E g4blbeam_index \in Perms(1..Len(g4blbeam_mat)) :
          index_keep' = IndexKeep(g4blbeam_index, inputdict["fraction"])
    /\ presample_mat' = g4blbeam_mat
    /\ g4blbeam_mat' = [i \in 1..Len(index_keep') |-> g4blbeam_mat[index_keep'[i]]]
    /\ pc' = "reindex"
    /\ UNCHANGED <<inputdict, marsfile, marsbeam_mat, retained_mat, time_included,
                   rand, written, error>>

-----------------------------------------------------------------------------
(* main: event numbers and output *)

\* Variant: the event numbers start at 0.
ReindexedFromZero(mat) == [i \in 1..Len(mat) |-> [mat[i] EXCEPT ![9] = Fp(i - 1)]]

\* mat[:, 8] = np.arange(rows) + 1
Reindexed(mat) == [i \in 1..Len(mat) |-> [mat[i] EXCEPT ![9] = Fp((i - 1) + 1)]]

Reindex ==
    /\ pc = "reindex"
    /\ g4blbeam_mat' = Reindexed(g4blbeam_mat)
    /\ pc' = "write"
    /\ UNCHANGED <<inputdict, marsfile, marsbeam_mat, retained_mat, time_included,
                   rand, presample_mat, index_keep, written, error>>

\* loadBeam, writeBeam, sys.exit(0)
WriteBeam ==
    /\ pc = "write"
    /\ written' = Append(written, g4blbeam_mat)
    /\ pc' = "done"
    /\ UNCHANGED <<inputdict, marsfile, marsbeam_mat, retained_mat, time_included,
                   g4blbeam_mat, rand, presample_mat, index_keep, error>>

-----------------------------------------------------------------------------
Next ==
    \/ Mars2g4blCall
    \/ Mars2g4blMissingKeys
    \/ LoadFile
    \/ LoadFileError
    \/ ColumnCheckNine
    \/ ColumnCheckNameError
    \/ MomentumCut
    \/ UnitConversion
    \/ PdgMapped
    \/ PdgKeyError
    \/ PdgEmptyError
    \/ WeightMult
    \/ Duplication
    \/ DuplicationValueError
    \/ NoDuplication
    \/ Sampling
    \/ Reindex
    \/ WriteBeam

Spec == Init /\ [][Next]_vars

-----------------------------------------------------------------------------
(* Properties.  Cells are compared in the fixed-point representation: the   *)
(* integer n is the cell 1000 * n.                                          *)

\* The run has passed the momentum cut.
PastCut ==
    \/ pc \in {"convert", "pdg", "mult", "duplicate", "sample", "reindex",
               "write", "done"}
    \/ pc = "aborted" /\ error \in {"KeyError", "EmptyError", "ValueError"}

\* The run has passed the sampling stage.
PastSampling == pc \in {"reindex", "write", "done"}

\* Two output rows agree in every field but the event number.
SameButEvent(a, b) == [a EXCEPT ![9] = 0] = [b EXCEPT ![9] = 0]

\* The configuration is one the configuration surface allows: all four keys,
\* mult > 0, fraction in (0,1], p_min <= p_max.
ValidConfig ==
    /\ DOMAIN inputdict = Keys
    /\ inputdict["mult"] > 0
    /\ inputdict["fraction"] > 0 /\ inputdict["fraction"] <= 1000
    /\ inputdict["p_cut"][1] <= inputdict["p_cut"][2]

-----------------------------------------------------------------------------
\* C5: every matrix handed to the output writer has exactly 12 columns, and
\* the event number of its i-th row is i, so the event numbers are 1..N in
\* ascending order without gaps or repeats.
C5_OutputShapeAndEventIds ==
    \A k \in 1..Len(written) :
        \A i \in 1..Len(written[k]) :
            /\ Len(written[k][i]) = 12
            /\ written[k][i][9] = 1000 * i

\* C5 witness: a finished run under a momentum window that duplicated its
\* rows, sampled half of them, and wrote at least two rows.
C5_Witness ==
    /\ pc = "done"
    /\ inputdict["duplicate"]
    /\ inputdict["p_cut"] # <<0, 0>>
    /\ inputdict["fraction"] = 500
    /\ Len(presample_mat) > Len(retained_mat)
    /\ Len(written) = 1
    /\ Len(written[1]) >= 2

-----------------------------------------------------------------------------
\* The window of C6 on a source row: p_min/1000 <= |p| <= p_max/1000, with
\* |p| the magnitude of the source momentum, compared through the squares.
C6_InWindow(row, p_min, p_max) ==
    LET magsq == row[5] * row[5] + row[6] * row[6] + row[7] * row[7]
        lo == p_min \div 1000
        hi == p_max \div 1000
    IN  /\ (lo <= 0 \/ lo * lo <= magsq)
        /\ (hi >= 0 /\ magsq <= hi * hi)

\* C6: once the cut has run, the retained rows are exactly the loaded rows
\* whose source momentum magnitude lies in [p_min/1000, p_max/1000], bounds
\* included and order kept, when p_cut is not [0,0]; and all loaded rows when
\* p_cut is [0,0].
C6_MomentumFilter ==
    PastCut =>
        retained_mat =
            IF inputdict["p_cut"] = <<0, 0>>
            THEN marsfile
            ELSE SelectSeq(marsfile,
                           LAMBDA r : C6_InWindow(r, inputdict["p_cut"][1],
                                                  inputdict["p_cut"][2]))

\* C6 witness: a window dropped a row and kept a row lying on its upper bound.
C6_Witness ==
    /\ pc = "convert"
    /\ inputdict["p_cut"] = <<100000, 300000>>
    /\ Len(retained_mat) = 1
    /\ Len(marsfile) = 2
    /\ TotalPSq(retained_mat[1]) = 300 * 300

-----------------------------------------------------------------------------
\* C7: for a fraction p in (0,1] and R rows before sampling, the sampled
\* matrix has exactly floor(p * R) rows, each a row of the matrix before
\* sampling, and no row index is selected twice.
C7_FractionalSampling ==
    (PastSampling /\ inputdict["fraction"] > 0 /\ inputdict["fraction"] <= 1000) =>
        LET R == Len(presample_mat)
            k == (inputdict["fraction"] * R) \div 1000
        IN  /\ Len(g4blbeam_mat) = k
            /\ Len(index_keep) = k
            /\ \A i \in 1..Len(index_keep) :
                  /\ index_keep[i] \in 1..R
                  /\ SameButEvent(g4blbeam_mat[i], presample_mat[index_keep[i]])
            /\ \A i, j \in 1..Len(index_keep) :
                  i # j => index_keep[i] # index_keep[j]

\* C7 witness: half of three duplicated rows was asked for and one row kept,
\* which is not the first.
C7_Witness ==
    /\ pc = "done"
    /\ inputdict["fraction"] = 500
    /\ inputdict["duplicate"]
    /\ Len(presample_mat) = 3
    /\ Len(g4blbeam_mat) = 1
    /\ index_keep # <<1>>

-----------------------------------------------------------------------------
\* The table of C8, codes 1..11 in order.
C8_Table == <<2212, -2112, 211, -211, 321, -321, -13, 13, 22, 11, -11>>

\* C8: without duplication every output row is the conversion of one retained
\* input record (code, x, y, z, px, py, pz, w) with code in 1..11: position
\* 10 * (x, y, z), momentum 1000 * (px, py, pz), pdg_id the table value of the
\* code, weight w * mult; no retained record yields two output rows; and with
\* fraction 1 and p_cut [0,0] the output rows are the conversions of all the
\* input records.
C8_PerRecordConversion ==
    (pc = "done" /\ ~inputdict["duplicate"]) =>
        LET out == written[1]
        IN  /\ Len(index_keep) = Len(out)
            /\ \A i \in 1..Len(out) :
                  /\ index_keep[i] \in 1..Len(retained_mat)
                  /\ LET r == retained_mat[index_keep[i]]
                         o == out[i]
                     IN  /\ r[1] % 1000 = 0
                         /\ r[1] \div 1000 \in 1..11
                         /\ o[1] = 10 * r[2] /\ o[2] = 10 * r[3] /\ o[3] = 10 * r[4]
                         /\ o[4] = 1000 * r[5] /\ o[5] = 1000 * r[6]
                         /\ o[6] = 1000 * r[7]
                         /\ o[8] = 1000 * C8_Table[r[1] \div 1000]
                         /\ 1000 * o[12] = r[8] * inputdict["mult"]
            /\ \A i, j \in 1..Len(out) : i # j => index_keep[i] # index_keep[j]
            /\ (inputdict["fraction"] = 1000 /\ inputdict["p_cut"] = <<0, 0>>) =>
                  /\ retained_mat = marsfile
                  /\ Len(out) = Len(marsfile)

\* C8 witness: a finished run without duplication, cut or sampling that
\* converted two records of different codes, one of non-zero weight.
C8_Witness ==
    /\ pc = "done"
    /\ ~inputdict["duplicate"]
    /\ inputdict["fraction"] = 1000
    /\ inputdict["p_cut"] = <<0, 0>>
    /\ inputdict["mult"] = 2000
    /\ Len(written[1]) = 2
    /\ written[1][1][8] # written[1][2][8]
    /\ written[1][1][12] = 1000

-----------------------------------------------------------------------------
\* C9: the output writer is invoked at most once, and only at the end of a
\* run in which no stage failed, with the re-indexed final matrix; a run
\* that ended in an error has written nothing.
C9_AllOrNothing ==
    /\ Len(written) <= 1
    /\ written # <<>> =>
          /\ pc = "done"
          /\ error = "none"
          /\ written[1] = g4blbeam_mat
          /\ \A i \in 1..Len(g4blbeam_mat) :
                SameButEvent(g4blbeam_mat[i], presample_mat[index_keep[i]])
    /\ (pc = "aborted" \/ error # "none") => written = <<>>

\* C9 witness: a run that had converted two rows ended on a code outside the
\* table, and nothing was written.
C9_Witness ==
    /\ pc = "aborted"
    /\ error = "KeyError"
    /\ Len(g4blbeam_mat) = 2
    /\ written = <<>>

-----------------------------------------------------------------------------
\* The number of copies C1 gives a record of rescaled weight w under the
\* draw u: floor(w) + 1 if u < w - floor(w), floor(w) otherwise.
C1_Copies(w, u) ==
    LET n == w \div 1000
        f == w - 1000 * n
    IN  IF u < f THEN n + 1 ELSE n

RECURSIVE C1_Total(_, _)
\* The copies C1 gives the first k retained records together.
C1_Total(k, mult) ==
    IF k = 0 THEN 0
    ELSE C1_Total(k - 1, mult)
           + C1_Copies((retained_mat[k][8] * mult) \div 1000, rand[k])

\* C1: with duplication enabled (and a valid configuration), a retained record
\* of rescaled weight w and draw u is repeated floor(w) + 1 times if
\* u < w - floor(w) and floor(w) times otherwise, so a record of integer
\* weight k is repeated k times.
C1_StochasticDuplication ==
    (pc = "sample" /\ ValidConfig /\ inputdict["duplicate"]) =>
        /\ \A i \in 1..Len(retained_mat) :
              marsbeam_mat[i][8] =
                  1000 * C1_Copies((retained_mat[i][8] * inputdict["mult"]) \div 1000,
                                   rand[i])
        /\ Len(g4blbeam_mat) = C1_Total(Len(retained_mat), inputdict["mult"])

-----------------------------------------------------------------------------
\* The codes of the rows of a MARS matrix that lie outside 1..11.
UnknownCodes(mat) ==
    {mat[i][1] : i \in {j \in 1..Len(mat) : mat[j][1] \notin {1000 * c : c \in 1..11}}}

\* C2 as stated: whenever the conversion completes (under a valid
\* configuration, a momentum window included), every input record had a code
\* in 1..11.
C2_UnknownCodeAlwaysFatal ==
    (pc = "done" /\ ValidConfig) => UnknownCodes(marsfile) = {}

\* C2 amended: a record with a code outside 1..11 that the momentum cut
\* retains ends the run in an error with nothing written; whenever the
\* conversion completes, every retained record had a code in 1..11.
C2_RetainedUnknownCodeFatal ==
    /\ pc = "done" => UnknownCodes(retained_mat) = {}
    /\ UnknownCodes(retained_mat) # {} =>
          /\ pc \in {"convert", "pdg", "aborted"}
          /\ written = <<>>

\* C2 witness: under a momentum window a row was dropped, a retained row
\* carried a code outside 1..11, and the run ended on the lookup.
C2_Witness ==
    /\ pc = "aborted"
    /\ error = "KeyError"
    /\ inputdict["p_cut"] # <<0, 0>>
    /\ Len(retained_mat) < Len(marsfile)
    /\ UnknownCodes(retained_mat) # {}
    /\ written = <<>>

-----------------------------------------------------------------------------
\* The column check has been passed or failed on a loaded matrix.
PastColumns ==
    /\ marsfile # <<>>
    /\ pc \notin {"mars2g4bl", "load", "columns"}

\* C3: 8 columns are accepted with the time flag false and every output row
\* has time 0; 9 columns are accepted with the flag true and the output time
\* is the source time * 1e9; any other width ends the run in an error before
\* any later stage.
C3_ColumnWidth ==
    PastColumns =>
        /\ NCols(marsfile) = 8 =>
              /\ time_included = "False"
              /\ error # "NameError"
              /\ \A k \in 1..Len(written) : \A i \in 1..Len(written[k]) :
                    written[k][i][7] = 0
        /\ NCols(marsfile) = 9 =>
              /\ time_included = "True"
              /\ error # "NameError"
              /\ (pc = "done" /\ ~inputdict["duplicate"]) =>
                    \A i \in 1..Len(written[1]) :
                        written[1][i][7] =
                            1000000000 * retained_mat[index_keep[i]][9]
        /\ NCols(marsfile) \notin {8, 9} =>
              /\ pc = "aborted"
              /\ retained_mat = <<>>
              /\ g4blbeam_mat = <<>>
              /\ written = <<>>

-----------------------------------------------------------------------------
\* The configurations C4 rejects.
C4_Invalid(d) ==
    \/ DOMAIN d # Keys
    \/ d["mult"] <= 0
    \/ d["fraction"] <= 0
    \/ d["p_cut"][1] > d["p_cut"][2]

\* C4: a configuration that lacks a key, or has mult <= 0, fraction <= 0 or
\* p_min > p_max, ends the run in a configuration error before the file is
\* loaded, and nothing is written.
C4_ConfigValidation ==
    C4_Invalid(inputdict) =>
        /\ pc \in {"mars2g4bl", "aborted"}
        /\ pc = "aborted" => error = "ConfigError"
        /\ marsfile = <<>>
        /\ written = <<>>

-----------------------------------------------------------------------------
\* C10 as stated: with fraction 1 (and a valid configuration) the rows keep
\* the order they had after duplication, and the event numbers follow that
\* order.
C10_NoShuffleAtFullFraction ==
    (PastSampling /\ ValidConfig /\ inputdict["fraction"] = 1000) =>
        /\ index_keep = [i \in 1..Len(presample_mat) |-> i]
        /\ \A i \in 1..Len(g4blbeam_mat) :
              SameButEvent(g4blbeam_mat[i], presample_mat[i])

\* C10 amended: with fraction 1 the indices are still shuffled; every row of
\* the matrix after duplication is kept exactly once, in the shuffled order,
\* and the event numbers 1..N follow that final order.
C10_FullFractionKeepsEveryRow ==
    (PastSampling /\ inputdict["fraction"] = 1000) =>
        /\ Len(index_keep) = Len(presample_mat)
        /\ {index_keep[i] : i \in 1..Len(index_keep)} = 1..Len(presample_mat)
        /\ Len(g4blbeam_mat) = Len(presample_mat)
        /\ \A i \in 1..Len(g4blbeam_mat) :
              /\ SameButEvent(g4blbeam_mat[i], presample_mat[index_keep[i]])
              /\ pc \in {"write", "done"} => g4blbeam_mat[i][9] = 1000 * i

\* C10 witness: a finished run with fraction 1 whose two distinct rows left
\* in the order opposite to the one they had after duplication.
C10_Witness ==
    /\ pc = "done"
    /\ inputdict["fraction"] = 1000
    /\ index_keep = <<2, 1>>
    /\ presample_mat[1] # presample_mat[2]
    /\ SameButEvent(written[1][1], presample_mat[2])

====
